---- MODULE Spec2Model ----
(***************************************************************************)
(* Model of the websocket server in src/main.py: the session wrapper       *)
(* (websocket_handler), the handshake (authorize_web_socket), the          *)
(* text_to_image handler and the batch search of do_diffusion.             *)
(*                                                                         *)
(* Every session is an asyncio task.  The event loop runs one task at a    *)
(* time and a task keeps the loop until it reaches an await that suspends  *)
(* (receive_json, send_json, close); `running` is the task that holds the  *)
(* loop, NoSession when every task is suspended.                           *)
(***************************************************************************)
EXTENDS Integers, Sequences, FiniteSets, TLC

\* ---------------------------------------------------------------- bounds
NumSessions == 2
MaxVariants == 4
MaxBatchSize == 3
MaxSteps == 2

\* ------------------------------------------------------ program constants
WS_1008_POLICY_VIOLATION == 1008

USERNAME == "settings.USERNAME"
PASSWORD == "settings.PASSWORD"
\* what dict.get returns for a key the payload does not carry
None == "None"

NoSession == 0
Sessions == 1..NumSessions

Min(a, b) == IF a <= b THEN a ELSE b

\* ------------------------------------------------------------- messages
\* The first inbound message: a json object (any of its two fields right,
\* wrong or absent), a json value that is no object, or text that is no json.
CredentialValues == {USERNAME, PASSWORD, "mallory", None}
CredentialObjects == [username : CredentialValues, password : CredentialValues]
NotJson == [username |-> "notjson", password |-> "notjson"]
NotObject == [username |-> "notobject", password |-> "notobject"]
CredentialMessages == CredentialObjects \cup {NotJson, NotObject}
NoCredentials == [username |-> "unread", password |-> "unread"]

\* The fields of BaseImageGenerationRequest that do_diffusion reads.
\* shape: "request" a well-formed request, "notjson" text that is no json,
\* "invalid" a json object that violates a field constraint, "notobject" a
\* json value that is no object.
Requests ==
    [shape : {"request"},
     num_variants : 1..MaxVariants,
     batch_size : 1..MaxBatchSize,
     num_inference_steps : 1..MaxSteps,
     try_smaller_batch_on_fail : BOOLEAN]
Malformed(shape) ==
    [shape |-> shape, num_variants |-> 0, batch_size |-> 0,
     num_inference_steps |-> 0, try_smaller_batch_on_fail |-> FALSE]
NoRequest == Malformed("none")
\* the requests two concurrent clients send in the concurrency specification
ConcurrentRequests ==
    {r \in Requests : r.num_variants = 2 /\ r.batch_size = 2
                      /\ r.num_inference_steps = 1}

\* Outbound messages, all of one shape.  progress is kept as the pair
\* num / den of the division of lines 119 and 138.  attempt is history, no
\* part of the message: the candidate attempt (1 for the first) that sent it.
NoReason == [kind |-> "none", arg |-> 0]
ProgressEvent(current_step, total_steps) ==
    [type |-> "progress", num |-> current_step, den |-> total_steps,
     result |-> <<>>, code |-> 0, reason |-> NoReason, attempt |-> 0]
\* mutant: the terminal event carries the PROGRESS status
FinishedEvent_AsProgress(images) ==
    [type |-> "progress", num |-> 0, den |-> 1,
     result |-> images, code |-> 0, reason |-> NoReason, attempt |-> 0]
FinishedEvent(images) ==
    [type |-> "finished", num |-> 0, den |-> 1,
     result |-> images, code |-> 0, reason |-> NoReason, attempt |-> 0]
CloseFrame(code, reason) ==
    [type |-> "close", num |-> 0, den |-> 1,
     result |-> <<>>, code |-> code, reason |-> reason, attempt |-> 0]

\* Exceptions: kind and, for BatchSizeIsTooLargeException, the batch size.
Exc(kind, arg) == [kind |-> kind, arg |-> arg]
NoExc == Exc("none", 0)
AuthorizationError == Exc("Authorization error", 0)
NotJsonReason == Exc("Server received message that is not in json format", 0)

\* What a send on a connection the client has left raises is decided by the
\* ASGI stack, not by this repository: WebSocketDisconnect, or the transport's
\* own connection-closed error, which the wrapper has no clause for.
SendFailures == {"WebSocketDisconnect", "ConnectionClosed"}

VARIABLES
    reqs,       \* the well-formed requests the clients may send
    running,    \* the task that holds the event loop, or NoSession
    pc,         \* each session's position in wrapper / handler / do_diffusion
    connected,  \* whether the server still sees the client connected
    credentials, \* history: the first message, once received
    reads,      \* history: the receive_json calls that returned or raised
    request,    \* the decoded request; history: the message that failed to decode
    df,         \* do_diffusion's locals
    step,       \* callbacks fired so far by the invocation in flight
    exc,        \* the exception being propagated
    out,        \* the outbound messages handed to the connection, in order
    term,       \* how the session ended
    tried,      \* history: the candidate batch sizes, in the order tried
    calls,      \* history: the invocations of the generation operation
    dd          \* history: how do_diffusion was left

vars == <<reqs, running, pc, connected, credentials, reads, request, df, step, exc, out,
          term, tried, calls, dd>>

\* ------------------------------------------------------------ do_diffusion
\* mutant: the first candidate is the requested batch size, unclamped
StartCandidate_Unclamped(r) == r.batch_size
\* line 106: min(request.batch_size, request.num_variants)
StartCandidate(r) == Min(r.batch_size, r.num_variants)
\* mutant: range(start, 0, -2)
CandidateRange_StepTwo(r) ==
    [k \in 1..((StartCandidate(r) + 1) \div 2) |-> StartCandidate(r) - 2 * (k - 1)]
\* mutant: the first candidate is tried a second time before the smaller ones
CandidateRange_FirstTwice(r) ==
    [k \in 1..(StartCandidate(r) + 1) |->
        IF k = 1 THEN StartCandidate(r) ELSE StartCandidate(r) - (k - 2)]
\* line 106: range(start, 0, -1)
CandidateRange(r) == [k \in 1..StartCandidate(r) |-> StartCandidate(r) - (k - 1)]

\* mutant: the except clause names an exception the invocation never raises
Caught_Nothing(e) == FALSE
\* line 153: except RuntimeError
Caught(e) == e.kind = "RuntimeError"

\* mutant: the retry is taken whatever the request says
TrySmaller_Always(r) == TRUE
\* line 154
TrySmaller(r) == r.try_smaller_batch_on_fail

\* mutant: the quotient is rounded up
NumBatches_RoundedUp(r, batch_size) ==
    (r.num_variants + batch_size - 1) \div batch_size
\* line 108
NumBatches(r, batch_size) == r.num_variants \div batch_size
\* mutant: the images of the full batches are not subtracted
LastBatchSize_Whole(r, batch_size) == r.num_variants
\* line 110
LastBatchSize(r, batch_size) ==
    r.num_variants - batch_size * NumBatches(r, batch_size)

NoLocals ==
    [pos |-> 0, batch_size |-> 0, num_batches |-> 0, last_batch_size |-> 0,
     i |-> 0, images |-> <<>>, remainder |-> FALSE]

\* mutant: the steps of the batches already finished are not counted
FullBatchProgress_NoOffset(i, num_batches, last_batch_size, batch_step, total_batch_steps) ==
    <<batch_step,
      num_batches * total_batch_steps
        + (IF last_batch_size # 0 THEN total_batch_steps ELSE 0)>>
\* mutant: the remainder batch is left out of a full batch's total_steps
FullBatchProgress_FullOnly(i, num_batches, last_batch_size, batch_step, total_batch_steps) ==
    <<i * total_batch_steps + batch_step, num_batches * total_batch_steps>>
\* lines 115-119: the callback of a full batch, as <<current_step, total_steps>>
FullBatchProgress(i, num_batches, last_batch_size, batch_step, total_batch_steps) ==
    <<i * total_batch_steps + batch_step,
      num_batches * total_batch_steps
        + (IF last_batch_size # 0 THEN total_batch_steps ELSE 0)>>
\* mutant: the remainder batch is left out of total_steps
RemainderProgress_NoRemainder(num_batches, batch_step, total_batch_steps) ==
    <<num_batches * total_batch_steps + batch_step,
      num_batches * total_batch_steps>>
\* lines 136-138: the callback of the remainder batch
RemainderProgress(num_batches, batch_step, total_batch_steps) ==
    <<num_batches * total_batch_steps + batch_step,
      (num_batches + 1) * total_batch_steps>>

\* mutant: the images of the candidate before are kept
ResetImages_Kept(images) == images
\* line 111: images = []
ResetImages(images) == <<>>

\* mutant: the new batch is put in front
Extend_InFront(images, new_images) == new_images \o images
\* lines 132 and 151: images.extend(new_images)
Extend(images, new_images) == images \o new_images

\* ------------------------------------------------- the generation operation
\* pipeline.text_to_image is not part of src/: it fires the callback once per
\* inference step with the steps completed so far, then returns one image per
\* prompt; image <<c, j>> is output j of the c-th invocation of the session.
CallbackSteps(r) == r.num_inference_steps
BatchSteps(r) == 0..(r.num_inference_steps - 1)
PipelineOutput(callno, nprompts) == [j \in 1..nprompts |-> <<callno, j>>]

\* ------------------------------------------------------------ the wrapper
\* line 60: the exceptions deriving from BaseWebSocketException
IsBaseWebSocketException(e) ==
    e.kind \in {"BatchSizeIsTooLargeException", "AspectRatioTooWideException",
                "ValidationError"}

\* mutant: the handshake fails only when both fields are wrong
AuthorizationFails_Both(m) ==
    m.username # USERNAME /\ m.password # PASSWORD
\* lines 42-43
AuthorizationFails(m) ==
    m.username # USERNAME \/ m.password # PASSWORD

Init0 ==
    /\ running = NoSession
    /\ connected = [s \in Sessions |-> pc[s] = "auth"]
    /\ credentials = [s \in Sessions |-> NoCredentials]
    /\ reads = [s \in Sessions |-> 0]
    /\ request = [s \in Sessions |-> NoRequest]
    /\ df = [s \in Sessions |-> NoLocals]
    /\ step = [s \in Sessions |-> 0]
    /\ exc = [s \in Sessions |-> NoExc]
    /\ out = [s \in Sessions |-> <<>>]
    /\ term = [s \in Sessions |-> "none"]
    /\ tried = [s \in Sessions |-> <<>>]
    /\ calls = [s \in Sessions |-> <<>>]
    /\ dd = [s \in Sessions |-> "none"]

\* one session is accepted (line 54), the others never connect;
\* the client may send every request within the bounds
Init ==
    /\ pc = [s \in Sessions |-> IF s = 1 THEN "auth" ELSE "idle"]
    /\ reqs = Requests
    /\ Init0

\* as Init, with the requests of the fewest and of the most inference steps
InitLive ==
    /\ pc = [s \in Sessions |-> IF s = 1 THEN "auth" ELSE "idle"]
    /\ reqs = {r \in Requests : r.num_inference_steps \in {1, MaxSteps}}
    /\ Init0

\* every session is accepted; the clients send a small set of requests
InitConcurrent ==
    /\ pc = [s \in Sessions |-> "auth"]
    /\ reqs = ConcurrentRequests
    /\ Init0

\* a raise: the exception starts to propagate from position `at`
Raise(s, e, at) ==
    /\ exc' = [exc EXCEPT ![s] = e]
    /\ pc' = [pc EXCEPT ![s] = at]
    /\ running' = s

\* lines 54-59 and 40-47: the wrapper resumes with the first message
RecvCredentials(s) ==
    /\ pc[s] = "auth"
    /\ running = NoSession
    /\ reads' = [reads EXCEPT ![s] = @ + 1]
    /\ UNCHANGED <<reqs, connected, request, df, step, tried, calls, dd>>
    /\ IF ~connected[s]
       THEN /\ Raise(s, Exc("WebSocketDisconnect", 0), "wrapper")
            /\ UNCHANGED <<credentials, out, term>>
       ELSE \E m \in CredentialMessages :
            /\ credentials' = [credentials EXCEPT ![s] = m]
            /\ CASE m = NotJson ->
                      /\ Raise(s, Exc("JSONDecodeError", 0), "wrapper")
                      /\ UNCHANGED <<out, term>>
                 [] m = NotObject ->
                      /\ Raise(s, Exc("AttributeError", 0), "wrapper")
                      /\ UNCHANGED <<out, term>>
                 [] OTHER ->
                      IF AuthorizationFails(m)
                      THEN /\ out' = [out EXCEPT ![s] = Append(@,
                                  CloseFrame(WS_1008_POLICY_VIOLATION,
                                             AuthorizationError))]
                           /\ term' = [term EXCEPT ![s] = "rejected"]
                           /\ pc' = [pc EXCEPT ![s] = "done"]
                           /\ running' = NoSession
                           /\ UNCHANGED exc
                      ELSE /\ pc' = [pc EXCEPT ![s] = "request"]
                           /\ running' = NoSession
                           /\ UNCHANGED <<exc, out, term>>

\* line 168: the handler resumes with the request message and decodes it
RecvRequest(s) ==
    /\ pc[s] = "request"
    /\ running = NoSession
    /\ reads' = [reads EXCEPT ![s] = @ + 1]
    /\ UNCHANGED <<reqs, connected, credentials, df, step, out, term, tried,
                   calls, dd>>
    /\ IF ~connected[s]
       THEN /\ Raise(s, Exc("WebSocketDisconnect", 0), "wrapper")
            /\ UNCHANGED request
       ELSE \E m \in reqs \cup {Malformed("notjson"), Malformed("invalid"),
                              Malformed("notobject")} :
            /\ request' = [request EXCEPT ![s] = m]
            /\ CASE m.shape = "notjson" ->
                   Raise(s, Exc("JSONDecodeError", 0), "wrapper")
              [] m.shape = "invalid" ->
                   Raise(s, Exc("ValidationError", 0), "wrapper")
              [] m.shape = "notobject" ->
                   Raise(s, Exc("TypeError", 0), "wrapper")
              [] OTHER ->
                   /\ pc' = [pc EXCEPT ![s] = "candidate"]
                   /\ running' = s
                   /\ UNCHANGED exc

\* lines 106-111 and 158-159: the head of the candidate loop
ForCandidate(s) ==
    /\ pc[s] = "candidate"
    /\ running = s
    /\ UNCHANGED <<reqs, credentials, reads, connected, request, step, out, term, calls>>
    /\ LET range == CandidateRange(request[s])
           pos == df[s].pos + 1
       IN IF pos <= Len(range)
          THEN /\ df' = [df EXCEPT ![s] =
                        [pos |-> pos,
                         batch_size |-> range[pos],
                         num_batches |-> NumBatches(request[s], range[pos]),
                         last_batch_size |-> LastBatchSize(request[s], range[pos]),
                         i |-> 0,
                         images |-> ResetImages(df[s].images),
                         remainder |-> FALSE]]
               /\ tried' = [tried EXCEPT ![s] = Append(@, range[pos])]
               /\ pc' = [pc EXCEPT ![s] = "batch"]
               /\ UNCHANGED <<running, exc, dd>>
          ELSE /\ Raise(s, Exc("AspectRatioTooWideException", 0), "wrapper")
               /\ dd' = [dd EXCEPT ![s] = "AspectRatioTooWideException"]
               /\ UNCHANGED <<df, tried>>

\* the call of diffusion_method with nprompts prompts
Invoke(s, nprompts, remainder) ==
    /\ calls' = [calls EXCEPT ![s] = Append(@,
                   [batch_size |-> df[s].batch_size, nprompts |-> nprompts,
                    remainder |-> remainder, status |-> "running"])]
    /\ df' = [df EXCEPT ![s].remainder = remainder]
    /\ step' = [step EXCEPT ![s] = 0]
    /\ pc' = [pc EXCEPT ![s] = "pipeline"]

\* lines 113 and 124-131: the head of the loop over the full batches
ForBatch(s) ==
    /\ pc[s] = "batch"
    /\ running = s
    /\ UNCHANGED <<reqs, credentials, reads, running, connected, request, exc, out, term,
                   tried, dd>>
    /\ IF df[s].i < df[s].num_batches
       THEN Invoke(s, df[s].batch_size, FALSE)
       ELSE /\ pc' = [pc EXCEPT ![s] = "remainder"]
            /\ UNCHANGED <<df, step, calls>>

\* lines 134 and 143-150, 152, 161: the remainder batch, or the return
IfLastBatch(s) ==
    /\ pc[s] = "remainder"
    /\ running = s
    /\ UNCHANGED <<reqs, credentials, reads, running, connected, request, exc, out, term, tried>>
    /\ IF df[s].last_batch_size # 0
       THEN /\ Invoke(s, df[s].last_batch_size, TRUE)
            /\ UNCHANGED dd
       ELSE /\ pc' = [pc EXCEPT ![s] = "finish"]
            /\ dd' = [dd EXCEPT ![s] = "returned"]
            /\ UNCHANGED <<df, step, calls>>

SetStatus(s, status) ==
    calls' = [calls EXCEPT ![s][Len(calls[s])].status = status]

\* lines 114-122 and 135-141: the generation operation calls the callback,
\* which computes the fraction and sends the progress event
ProgressCallback(s) ==
    /\ pc[s] = "pipeline"
    /\ running = s
    /\ step[s] \in BatchSteps(request[s])
    /\ UNCHANGED <<reqs, credentials, reads, connected, request, df, step, term, tried, dd>>
    /\ LET total_batch_steps == CallbackSteps(request[s])
           progress ==
             IF df[s].remainder
             THEN RemainderProgress(df[s].num_batches, step[s], total_batch_steps)
             ELSE FullBatchProgress(df[s].i, df[s].num_batches,
                                    df[s].last_batch_size, step[s], total_batch_steps)
       IN IF connected[s]
          THEN /\ out' = [out EXCEPT ![s] =
                            Append(@, [ProgressEvent(progress[1], progress[2])
                                         EXCEPT !.attempt = df[s].pos])]
               /\ pc' = [pc EXCEPT ![s] = "sent"]
               /\ running' = NoSession
               /\ UNCHANGED <<exc, calls>>
          ELSE \E f \in SendFailures :
               /\ Raise(s, Exc(f, 0), "except")
               /\ SetStatus(s, f)
               /\ UNCHANGED out

\* the send of the progress event returns into the generation operation
SendReturns(s) ==
    /\ pc[s] = "sent"
    /\ running = NoSession
    /\ pc' = [pc EXCEPT ![s] = "pipeline"]
    /\ step' = [step EXCEPT ![s] = @ + 1]
    /\ running' = s
    /\ UNCHANGED <<reqs, credentials, reads, connected, request, df, exc, out, term, tried,
                   calls, dd>>

\* the generation operation signals resource exhaustion, at any step
PipelineRaises(s) ==
    /\ pc[s] = "pipeline"
    /\ running = s
    /\ Raise(s, Exc("RuntimeError", 0), "except")
    /\ SetStatus(s, "RuntimeError")
    /\ UNCHANGED <<reqs, credentials, reads, connected, request, df, step, out, term, tried, dd>>

\* lines 124-132 and 143-152: the invocation returns its images
PipelineReturns(s) ==
    /\ pc[s] = "pipeline"
    /\ running = s
    /\ step[s] \notin BatchSteps(request[s])
    /\ LET new_images ==
             PipelineOutput(Len(calls[s]), calls[s][Len(calls[s])].nprompts)
       IN df' = [df EXCEPT ![s].images = Extend(@, new_images),
                           ![s].i = IF df[s].remainder THEN @ ELSE @ + 1]
    /\ SetStatus(s, "returned")
    /\ pc' = [pc EXCEPT ![s] = IF df[s].remainder THEN "finish" ELSE "batch"]
    /\ dd' = [dd EXCEPT ![s] = IF df[s].remainder THEN "returned" ELSE @]
    /\ UNCHANGED <<reqs, credentials, reads, running, connected, request, step, exc, out,
                   term, tried>>

\* lines 153-157: the except clause of the candidate loop
ExceptRuntimeError(s) ==
    /\ pc[s] = "except"
    /\ running = s
    /\ UNCHANGED <<reqs, credentials, reads, connected, request, df, step, out, term, tried,
                   calls>>
    /\ IF Caught(exc[s])
       THEN IF TrySmaller(request[s])
            THEN /\ pc' = [pc EXCEPT ![s] = "candidate"]
                 /\ exc' = [exc EXCEPT ![s] = NoExc]
                 /\ UNCHANGED <<running, dd>>
            ELSE /\ Raise(s, Exc("BatchSizeIsTooLargeException", df[s].batch_size),
                          "wrapper")
                 /\ dd' = [dd EXCEPT ![s] = "BatchSizeIsTooLargeException"]
       ELSE /\ pc' = [pc EXCEPT ![s] = "wrapper"]
            /\ dd' = [dd EXCEPT ![s] = exc[s].kind]
            /\ UNCHANGED <<running, exc>>

\* lines 173-175: the handler sends the FINISHED event and returns
SendFinished(s) ==
    /\ pc[s] = "finish"
    /\ running = s
    /\ UNCHANGED <<reqs, credentials, reads, connected, request, df, step, tried, calls, dd>>
    /\ IF connected[s]
       THEN /\ out' = [out EXCEPT ![s] = Append(@, FinishedEvent(df[s].images))]
            /\ term' = [term EXCEPT ![s] = "finished"]
            /\ pc' = [pc EXCEPT ![s] = "done"]
            /\ running' = NoSession
            /\ UNCHANGED exc
       ELSE \E f \in SendFailures :
            /\ Raise(s, Exc(f, 0), "wrapper")
            /\ UNCHANGED <<out, term>>

\* mutant: the close carries the normal-closure code
Close_NormalClosure(s, reason) ==
    IF connected[s]
    THEN /\ out' = [out EXCEPT ![s] = Append(@, CloseFrame(1000, reason))]
         /\ term' = [term EXCEPT ![s] = "closed"]
    ELSE /\ \E t \in {"closed", "escaped"} : term' = [term EXCEPT ![s] = t]
         /\ UNCHANGED out
\* the close of lines 61 and 63.  On a connection the client has left no
\* frame goes out, and the ASGI stack decides whether close() returns or
\* raises; a raise inside an except clause leaves the wrapper.
Close(s, reason) ==
    IF connected[s]
    THEN /\ out' = [out EXCEPT ![s] =
                      Append(@, CloseFrame(WS_1008_POLICY_VIOLATION, reason))]
         /\ term' = [term EXCEPT ![s] = "closed"]
    ELSE /\ \E t \in {"closed", "escaped"} : term' = [term EXCEPT ![s] = t]
         /\ UNCHANGED out

\* lines 60-68: the except clauses of the wrapper
WrapperExcept(s) ==
    /\ pc[s] = "wrapper"
    /\ running = s
    /\ pc' = [pc EXCEPT ![s] = "done"]
    /\ running' = NoSession
    /\ UNCHANGED <<reqs, credentials, reads, connected, request, df, step, exc, tried, calls, dd>>
    /\ CASE IsBaseWebSocketException(exc[s]) -> Close(s, exc[s])
         [] exc[s].kind = "JSONDecodeError" -> Close(s, NotJsonReason)
         [] exc[s].kind = "WebSocketDisconnect" ->
              /\ term' = [term EXCEPT ![s] = "silent"]
              /\ UNCHANGED out
         [] OTHER ->
              /\ term' = [term EXCEPT ![s] = "escaped"]
              /\ UNCHANGED out

\* the client leaves; the server sees it when the event loop is free
Disconnect(s) ==
    /\ running = NoSession
    /\ connected[s]
    /\ pc[s] \in {"auth", "request", "sent"}
    /\ connected' = [connected EXCEPT ![s] = FALSE]
    /\ UNCHANGED <<reqs, credentials, reads, running, pc, request, df, step, exc, out, term,
                   tried, calls, dd>>

Next ==
    \/ \E s \in Sessions : RecvCredentials(s)
    \/ \E s \in Sessions : RecvRequest(s)
    \/ \E s \in Sessions : ForCandidate(s)
    \/ \E s \in Sessions : ForBatch(s)
    \/ \E s \in Sessions : IfLastBatch(s)
    \/ \E s \in Sessions : ProgressCallback(s)
    \/ \E s \in Sessions : SendReturns(s)
    \/ \E s \in Sessions : PipelineRaises(s)
    \/ \E s \in Sessions : PipelineReturns(s)
    \/ \E s \in Sessions : ExceptRuntimeError(s)
    \/ \E s \in Sessions : SendFinished(s)
    \/ \E s \in Sessions : WrapperExcept(s)
    \/ \E s \in Sessions : Disconnect(s)

Spec == Init /\ [][Next]_vars
SpecConcurrent == InitConcurrent /\ [][Next]_vars

\* The steps a session takes by itself, without a message from its client:
\* the event loop runs a task that is ready, an invocation returns or raises,
\* a send returns or raises.
Progress(s) ==
    \/ ForCandidate(s)
    \/ ForBatch(s)
    \/ IfLastBatch(s)
    \/ ProgressCallback(s)
    \/ SendReturns(s)
    \/ PipelineRaises(s)
    \/ PipelineReturns(s)
    \/ ExceptRuntimeError(s)
    \/ SendFinished(s)
    \/ WrapperExcept(s)
SpecLive == InitLive /\ [][Next]_vars /\ \A s \in Sessions : WF_vars(Progress(s))

\* ------------------------------------------------------------------ claims
\* what the claims call start, written out: min(batch_size, num_variants)
ClaimStart(r) == IF r.batch_size < r.num_variants THEN r.batch_size ELSE r.num_variants
WellFormed(s) == request[s].shape = "request"
\* the session is inside an invocation of the generation operation
InFlight(s) == pc[s] \in {"pipeline", "sent"}
\* some invocation of candidate b signalled resource exhaustion
Exhausted(s, b) ==
    \E c \in DOMAIN calls[s] :
       calls[s][c].batch_size = b /\ calls[s][c].status = "RuntimeError"
\* the invocations a candidate needs: the full batches and the remainder batch
InvocationsNeeded(r, b) ==
    (r.num_variants \div b) + (IF r.num_variants % b > 0 THEN 1 ELSE 0)
\* every invocation of candidate b completed
Completed(s, b) ==
    Cardinality({c \in DOMAIN calls[s] :
                   calls[s][c].batch_size = b /\ calls[s][c].status = "returned"})
      = InvocationsNeeded(request[s], b)

\* C1: at most one invocation of the generation operation is in flight at
\* any instant, however many sessions are processing requests; while one
\* session is suspended inside an invocation no other session starts one.
\* The code takes no lock: this fails.
C1_AtMostOneInFlight ==
    Cardinality({s \in Sessions : InFlight(s)}) <= 1

\* C2: with try_smaller_batch_on_fail, the candidates are tried in the order
\* start, start-1, ..., 1; a candidate is followed by another only when one of
\* its invocations raised RuntimeError; a candidate whose invocations all
\* completed is the last one tried and no invocation follows it.
C2_CandidateOrder ==
    \A s \in Sessions :
       (WellFormed(s) /\ request[s].try_smaller_batch_on_fail) =>
          /\ Len(tried[s]) <= ClaimStart(request[s])
          /\ \A k \in 1..Len(tried[s]) :
                tried[s][k] = ClaimStart(request[s]) - (k - 1)
          /\ \A k \in 1..(Len(tried[s]) - 1) : Exhausted(s, tried[s][k])
          /\ \A k \in 1..Len(tried[s]) :
                Completed(s, tried[s][k]) =>
                   /\ k = Len(tried[s])
                   /\ ~Exhausted(s, tried[s][k])
                   /\ pc[s] \notin {"candidate", "pipeline", "sent", "except"}
C2_Witness ==
    \E s \in Sessions :
       /\ WellFormed(s) /\ request[s].try_smaller_batch_on_fail
       /\ tried[s] = <<3, 2, 1>>
       /\ Completed(s, 1)
       /\ term[s] = "finished"

\* C3: when do_diffusion returns at candidate b, images holds num_variants
\* images: the outputs of the num_variants div b full-batch invocations in
\* submission order, then the output of the remainder invocation, which
\* exists only when num_variants mod b > 0.
C3_ResultOrder ==
    \A s \in Sessions :
       dd[s] = "returned" =>
          LET n == request[s].num_variants
              b == tried[s][Len(tried[s])]
              cnt == InvocationsNeeded(request[s], b)
              first == Len(calls[s]) - cnt + 1
          IN /\ first >= 1
             /\ Len(df[s].images) = n
             /\ df[s].images =
                  [k \in 1..n |-> <<first + ((k - 1) \div b), ((k - 1) % b) + 1>>]
             /\ \A j \in 0..(cnt - 1) :
                   /\ calls[s][first + j].batch_size = b
                   /\ calls[s][first + j].status = "returned"
                   /\ calls[s][first + j].nprompts =
                        (IF j < n \div b THEN b ELSE n % b)
                   /\ calls[s][first + j].remainder = (j >= n \div b)
C3_Witness ==
    \E s \in Sessions :
       /\ dd[s] = "returned"
       /\ request[s].num_variants = 3
       /\ df[s].batch_size = 2
       /\ df[s].last_batch_size = 1
       /\ Len(tried[s]) = 2
       /\ term[s] = "finished"

\* C4: without try_smaller_batch_on_fail, an invocation that raises
\* RuntimeError makes do_diffusion fail with BatchSizeIsTooLargeException
\* carrying start = min(batch_size, num_variants); one candidate is tried
\* and the failed invocation is the last one made.
C4_BoundedBatchError ==
    \A s \in Sessions :
       (WellFormed(s) /\ ~request[s].try_smaller_batch_on_fail) =>
          /\ Len(tried[s]) <= 1
          /\ (\E c \in DOMAIN calls[s] : calls[s][c].status = "RuntimeError") =>
                /\ tried[s] = <<ClaimStart(request[s])>>
                /\ calls[s][Len(calls[s])].status = "RuntimeError"
                /\ \A c \in 1..(Len(calls[s]) - 1) : calls[s][c].status = "returned"
                /\ \/ pc[s] = "except" /\ exc[s].kind = "RuntimeError"
                   \/ /\ pc[s] \in {"wrapper", "done"}
                      /\ dd[s] = "BatchSizeIsTooLargeException"
                      /\ exc[s] = Exc("BatchSizeIsTooLargeException",
                                      ClaimStart(request[s]))
C4_Witness ==
    \E s \in Sessions :
       /\ WellFormed(s) /\ ~request[s].try_smaller_batch_on_fail
       /\ request[s].batch_size = 3 /\ request[s].num_variants = 2
       /\ dd[s] = "BatchSizeIsTooLargeException"
       /\ exc[s].arg = 2
       /\ Len(calls[s]) = 1
       /\ pc[s] = "done"

\* C5: do_diffusion fails with AspectRatioTooWideException exactly when
\* try_smaller_batch_on_fail is set and every candidate from start down to 1
\* raised RuntimeError; without try_smaller_batch_on_fail the only error
\* do_diffusion raises itself is BatchSizeIsTooLargeException at start.
AllExhausted(s) == \A b \in 1..ClaimStart(request[s]) : Exhausted(s, b)
C5_InfeasibleConfiguration ==
    \A s \in Sessions :
       WellFormed(s) =>
          /\ dd[s] = "AspectRatioTooWideException" =>
                /\ request[s].try_smaller_batch_on_fail
                /\ AllExhausted(s)
                /\ exc[s].kind = "AspectRatioTooWideException"
          /\ (request[s].try_smaller_batch_on_fail /\ AllExhausted(s)) =>
                \/ dd[s] = "AspectRatioTooWideException"
                \/ pc[s] \in {"except", "candidate"}
          /\ ~request[s].try_smaller_batch_on_fail =>
                /\ dd[s] \in {"none", "returned", "BatchSizeIsTooLargeException"}
                               \cup SendFailures
                /\ dd[s] = "BatchSizeIsTooLargeException" =>
                      exc[s].arg = ClaimStart(request[s])
C5_Witness ==
    \E s \in Sessions :
       /\ dd[s] = "AspectRatioTooWideException"
       /\ tried[s] = <<3, 2, 1>>
       /\ Len(calls[s]) >= 5
       /\ pc[s] = "done"

\* the progress events of a session, by their place in out
ProgressAt(s) == {i \in DOMAIN out[s] : out[s][i].type = "progress"}
FinishedAt(s) == {i \in DOMAIN out[s] : out[s][i].type = "finished"}
\* the fraction of event a is at most that of event b
AtMost(a, b) == a.num * b.den <= b.num * a.den
AnyExhausted(s) == \E c \in DOMAIN calls[s] : calls[s][c].status = "RuntimeError"
DomainErrors == {"BatchSizeIsTooLargeException", "AspectRatioTooWideException"}

\* C6, as claimed: for a request that ends with FINISHED, also one that
\* succeeds after candidates were abandoned, the progress fractions sent
\* from the request to the FINISHED event are non-decreasing.
C6_NonDecreasingOverRequest ==
    \A s \in Sessions :
       term[s] = "finished" =>
          \A i, j \in ProgressAt(s) : i < j => AtMost(out[s][i], out[s][j])

\* C6, amended: the progress fractions sent during one candidate attempt are
\* non-decreasing, and so is the complete sequence of a request for which no
\* candidate was abandoned; across an abandoned candidate the sequence
\* restarts from the new candidate's first step.  Stated of sessions that
\* have ended, whose out holds the complete sequence, however they ended.
C6_NonDecreasingPerAttempt ==
    \A s \in Sessions :
       pc[s] = "done" =>
          \A i, j \in ProgressAt(s) :
             i < j =>
                /\ out[s][i].attempt <= out[s][j].attempt
                /\ out[s][i].attempt = out[s][j].attempt =>
                      AtMost(out[s][i], out[s][j])
                /\ Len(tried[s]) <= 1 => AtMost(out[s][i], out[s][j])
C6_Witness ==
    \E s \in Sessions :
       /\ term[s] = "finished"
       /\ Len(tried[s]) = 2
       /\ \E i, j, k \in ProgressAt(s) :
             /\ i < j /\ j < k
             /\ out[s][i].attempt = 1 /\ out[s][j].attempt = 2
             /\ out[s][k].attempt = 2
             /\ ~AtMost(out[s][i], out[s][j])
             /\ ~AtMost(out[s][k], out[s][j])

\* C7: every progress event carries a value p with 0 <= p < 1, for every
\* step index the generation operation reports during a full-batch or a
\* remainder invocation.
C7_ProgressBelowOne ==
    \A s \in Sessions :
       \A i \in ProgressAt(s) :
          /\ 0 <= out[s][i].num
          /\ out[s][i].num < out[s][i].den
C7_Witness ==
    \E s \in Sessions :
       /\ request[s].num_variants = 3
       /\ df[s].batch_size = 2
       /\ df[s].remainder
       /\ \E i \in ProgressAt(s) :
             /\ i = Len(out[s])
             /\ out[s][i].den = 4 /\ out[s][i].num = 3

C9_FinishedOnceAndLast ==
    \A s \in Sessions :
       /\ Cardinality(FinishedAt(s)) <= 1
       /\ \A i \in FinishedAt(s) :
             /\ i = Len(out[s])
             /\ dd[s] = "returned"
             /\ out[s][i].result = df[s].images
             /\ pc[s] = "done"
       /\ (pc[s] = "done" /\ dd[s] = "returned" /\ connected[s]) =>
             Cardinality(FinishedAt(s)) = 1
       /\ (pc[s] = "done" /\ (dd[s] # "returned" \/ ~connected[s])) =>
             FinishedAt(s) = {}
C9_Witness ==
    \E s \in Sessions :
       /\ pc[s] = "done"
       /\ Len(out[s]) >= 4
       /\ FinishedAt(s) = {Len(out[s])}
       /\ Len(tried[s]) = 2

\* C10, as claimed: every execution of do_diffusion in which an invocation
\* raised RuntimeError ends in a result, in BatchSizeIsTooLargeException or in
\* AspectRatioTooWideException, and each of the two errors is surfaced by the
\* wrapper as a close with code 1008 and the error's message (read here as:
\* the frame goes out to a client that is still connected).
C10_ExhaustionOutcomes ==
    \A s \in Sessions :
       (AnyExhausted(s) /\ pc[s] = "done") =>
          /\ dd[s] \in {"returned"} \cup DomainErrors
          /\ (dd[s] \in DomainErrors /\ connected[s]) =>
                /\ out[s] # <<>>
                /\ out[s][Len(out[s])] = CloseFrame(1008, exc[s])

\* C10, amended: a RuntimeError raised by an invocation never leaves
\* do_diffusion and never reaches the client; an execution of do_diffusion in
\* which an invocation raised RuntimeError ends in a result from a smaller
\* candidate, in one of the two domain errors or, once the client has
\* disconnected, in the failure of a progress send; the wrapper answers a
\* domain error with close(1008, message), whose frame goes out while the
\* client is connected.
C10_ExhaustionNeverEscapes ==
    \A s \in Sessions :
       /\ exc[s].kind = "RuntimeError" => pc[s] = "except"
       /\ dd[s] # "RuntimeError"
       /\ \A i \in DOMAIN out[s] : out[s][i].reason.kind # "RuntimeError"
       /\ (AnyExhausted(s) /\ pc[s] \in {"finish", "wrapper", "done"}) =>
             /\ dd[s] \in {"returned"} \cup DomainErrors \cup SendFailures
             /\ dd[s] \in SendFailures => ~connected[s]
             /\ dd[s] = "returned" =>
                   tried[s][Len(tried[s])] < ClaimStart(request[s])
             /\ (dd[s] \in DomainErrors /\ pc[s] = "done") =>
                   /\ exc[s].kind = dd[s]
                   /\ connected[s] =>
                         /\ term[s] = "closed"
                         /\ out[s][Len(out[s])] = CloseFrame(1008, exc[s])
                   /\ ~connected[s] =>
                         /\ term[s] \in {"closed", "escaped"}
                         /\ \A i \in DOMAIN out[s] : out[s][i].type # "close"
C10_Witness ==
    \E s \in Sessions :
       /\ AnyExhausted(s)
       /\ pc[s] = "done"
       /\ dd[s] = "BatchSizeIsTooLargeException"
       /\ Len(out[s]) >= 2
       /\ out[s][Len(out[s])] =
            CloseFrame(1008, Exc("BatchSizeIsTooLargeException", 3))

\* C11, as claimed: when the client disconnects after it sent a valid
\* request and before the FINISHED event, the session ends with no outbound
\* message other than the progress events already sent (no FINISHED event, no
\* close frame) and the exception that ends it is one the wrapper has a
\* clause for.  The wrapper has a clause for WebSocketDisconnect and none for
\* the transport's own error: this fails when the send that meets the closed
\* connection raises the latter.
C11_SilentOnDisconnect ==
    \A s \in Sessions :
       (WellFormed(s) /\ ~connected[s] /\ pc[s] = "done") =>
          /\ exc[s].kind \in {"WebSocketDisconnect"} \cup DomainErrors
          /\ \A i \in DOMAIN out[s] : out[s][i].type = "progress"

C13_PlanInvariant ==
    \A s \in Sessions :
       df[s].pos > 0 =>
          LET n == request[s].num_variants
              b == df[s].batch_size
          IN /\ b = tried[s][Len(tried[s])]
             /\ 1 <= b
             /\ b <= ClaimStart(request[s])
             /\ df[s].num_batches * b + df[s].last_batch_size = n
             /\ 0 <= df[s].last_batch_size
             /\ df[s].last_batch_size < b
             /\ df[s].num_batches = n \div b
             /\ df[s].num_batches >= 1
C13_Witness ==
    \E s \in Sessions :
       /\ request[s].num_variants = 4
       /\ request[s].batch_size = 3
       /\ df[s].pos = 1
       /\ df[s].num_batches = 1
       /\ df[s].last_batch_size = 1
       /\ pc[s] = "finish"

\* the invocations whose output is part of a sequence of images
Producers(images) == {images[k][1] : k \in DOMAIN images}

\* C14: when do_diffusion returns after candidates were abandoned, the
\* result, and the FINISHED event that carries it, holds only images of
\* invocations of the candidate that succeeded; no image of an invocation of
\* an abandoned candidate is in it, also when that invocation had completed.
C14_AbandonedDiscarded ==
    \A s \in Sessions :
       dd[s] = "returned" =>
          LET b == tried[s][Len(tried[s])]
              results == {df[s].images} \cup {out[s][i].result : i \in FinishedAt(s)}
          IN \A images \in results :
                /\ Producers(images) \subseteq DOMAIN calls[s]
                /\ \A c \in Producers(images) :
                      /\ calls[s][c].batch_size = b
                      /\ calls[s][c].status = "returned"
                /\ \A c \in DOMAIN calls[s] :
                      calls[s][c].batch_size # b => c \notin Producers(images)
C14_Witness ==
    \E s \in Sessions :
       /\ dd[s] = "returned"
       /\ term[s] = "finished"
       /\ tried[s] = <<3, 2>>
       /\ calls[s][1].batch_size = 3
       /\ calls[s][1].status = "returned"
       /\ calls[s][2].status = "RuntimeError"
       /\ Producers(out[s][Len(out[s])].result) = {3, 4}

\* total_steps of candidate b's plan, as the claim writes it
ClaimTotalSteps(r, b) ==
    ((r.num_variants \div b) + (IF r.num_variants % b > 0 THEN 1 ELSE 0))
       * r.num_inference_steps
\* the invocations already finished in the attempt of the current candidate
\* (a batch size is tried once, so it names the attempt)
FinishedInAttempt(s) ==
    Cardinality({c \in DOMAIN calls[s] :
                   /\ calls[s][c].batch_size = tried[s][Len(tried[s])]
                   /\ calls[s][c].status = "returned"})

\* C15: a progress event, at the moment it is sent during the attempt of
\* candidate b, equals (k * num_inference_steps + batch_step) / total_steps
\* with k the invocations already finished in that attempt and total_steps
\* that of b's own plan; it belongs to the current attempt, never to an
\* abandoned one; and it is not below the event sent before it in the same
\* attempt, also from the last full batch to the remainder batch.
C15_ProgressFormula ==
    \A s \in Sessions :
       pc[s] = "sent" =>
          LET last == Len(out[s])
              event == out[s][last]
              b == tried[s][Len(tried[s])]
              k == FinishedInAttempt(s)
              batch_step == step[s]
          IN /\ event.type = "progress"
             /\ event.attempt = Len(tried[s])
             /\ batch_step < request[s].num_inference_steps
             /\ event.den > 0
             /\ event.num * ClaimTotalSteps(request[s], b)
                  = (k * request[s].num_inference_steps + batch_step) * event.den
             /\ (last > 1 /\ out[s][last - 1].attempt = event.attempt) =>
                   AtMost(out[s][last - 1], event)
C15_Witness ==
    \E s \in Sessions :
       /\ pc[s] = "sent"
       /\ request[s].num_variants = 3
       /\ tried[s] = <<3, 2>>
       /\ df[s].remainder
       /\ step[s] = 0
       /\ Len(out[s]) = 5
       /\ out[s][2].attempt = 1 /\ out[s][2].num = 1 /\ out[s][2].den = 2
       /\ out[s][4].attempt = 2 /\ out[s][4].num = 1 /\ out[s][4].den = 4
       /\ out[s][5].attempt = 2 /\ out[s][5].num = 2 /\ out[s][5].den = 4

\* C16: every invocation do_diffusion makes has at least 1 and at most
\* min(batch_size, num_variants) prompts, and a request with num_variants = 1
\* makes its first invocation with exactly one prompt, whatever batch_size is.
C16_PromptsWithinPlan ==
    \A s \in Sessions :
       /\ \A c \in DOMAIN calls[s] :
             /\ 1 <= calls[s][c].nprompts
             /\ calls[s][c].nprompts <= ClaimStart(request[s])
             /\ calls[s][c].nprompts <= request[s].num_variants
       /\ (request[s].num_variants = 1 /\ calls[s] # <<>>) =>
             /\ calls[s][1].nprompts = 1
             /\ tried[s][1] = 1
C16_Witness ==
    \E s \in Sessions :
       /\ request[s].num_variants = 1
       /\ request[s].batch_size = 3
       /\ Len(calls[s]) = 1
       /\ calls[s][1].nprompts = 1
       /\ calls[s][1].status = "returned"

\* C17, as claimed: once the client of a request in progress has
\* disconnected, no new invocation is started for the request and no new
\* candidate is tried.  The code learns of the disconnect only from a send
\* that fails: when the client leaves after the last progress event of an
\* invocation, the next batch is started, and after a RuntimeError the next
\* candidate.
C17_NoInvocationAfterDisconnect ==
    [][\A s \in Sessions :
          ~connected[s] =>
             /\ Len(calls'[s]) = Len(calls[s])
             /\ Len(tried'[s]) = Len(tried[s])]_vars

\* the sum over b = 1 .. top of ceil(num_variants / b)
RECURSIVE SumOfCeilings(_, _)
SumOfCeilings(r, top) ==
    IF top = 0 THEN 0
    ELSE ((r.num_variants + top - 1) \div top) + SumOfCeilings(r, top - 1)
InvocationsWithinBound ==
    \A s \in Sessions :
       WellFormed(s) =>
          Len(calls[s]) <= SumOfCeilings(request[s], ClaimStart(request[s]))

\* the three ends the claim names: FINISHED sent, closed with an error (the
\* wrapper answered a domain error with its close, whatever became of the
\* close), silently ended on disconnect
ClaimedEnd(s) ==
    \/ term[s] = "finished"
    \/ term[s] \in {"closed", "escaped"} /\ exc[s].kind \in DomainErrors
    \/ term[s] = "silent"

====
